---- MODULE Spec2Model ----
(***************************************************************************)
(* Model of the EPUB editor of weiweimhy/go-utils (package epub, the       *)
(* second half of src/crypto/aes.go).                                      *)
(*                                                                         *)
(* A Go string is modelled as a sequence of one-character strings, so that *)
(* the string and path functions of the code (strings.ReplaceAll,          *)
(* strings.HasPrefix, path.Clean, path.Dir, ...) are computed, character   *)
(* by character, as the Go library computes them.                          *)
(***************************************************************************)
EXTENDS Integers, Sequences, FiniteSets, TLC

(***************************************************************************)
(* Go's strings package                                                    *)
(***************************************************************************)

\* s[n+1:] and s[:n]
Drop(s, n) == SubSeq(s, n + 1, Len(s))
Take(s, n) == SubSeq(s, 1, n)

HasPrefix(s, pre) == Len(s) >= Len(pre) /\ Take(s, Len(pre)) = pre

HasSuffix(s, suf) == Len(s) >= Len(suf) /\ Drop(s, Len(s) - Len(suf)) = suf

\* strings.Contains
Contains(s, sub) == \E i \in 0..(Len(s) - Len(sub)) : SubSeq(s, i + 1, i + Len(sub)) = sub

\* strings.Count for a non-empty substr: non-overlapping occurrences, leftmost first
RECURSIVE Count(_, _)
Count(s, sub) ==
    IF Len(s) < Len(sub) THEN 0
    ELSE IF HasPrefix(s, sub) THEN 1 + Count(Drop(s, Len(sub)), sub)
    ELSE Count(Tail(s), sub)

\* strings.ReplaceAll for a non-empty old
RECURSIVE ReplaceAll(_, _, _)
ReplaceAll(s, old, new) ==
    IF Len(s) < Len(old) THEN s
    ELSE IF HasPrefix(s, old) THEN new \o ReplaceAll(Drop(s, Len(old)), old, new)
    ELSE <<Head(s)>> \o ReplaceAll(Tail(s), old, new)

\* unicode.ToLower on the letters the model's names use
LowerChar(c) ==
    CASE c = "A" -> "a" [] c = "B" -> "b" [] c = "C" -> "c" [] c = "D" -> "d"
      [] c = "E" -> "e" [] c = "F" -> "f" [] c = "G" -> "g" [] c = "H" -> "h"
      [] c = "L" -> "l" [] c = "M" -> "m" [] c = "O" -> "o" [] c = "P" -> "p"
      [] c = "R" -> "r" [] c = "S" -> "s" [] c = "T" -> "t" [] c = "X" -> "x"
      [] OTHER -> c

ToLower(s) == [i \in 1..Len(s) |-> LowerChar(s[i])]

\* strings.Split(s, sep) for a one-character sep: always at least one part
RECURSIVE Split(_, _)
Split(s, sep) ==
    IF \A i \in 1..Len(s) : s[i] # sep THEN <<s>>
    ELSE LET i == CHOOSE k \in 1..Len(s) : s[k] = sep /\ \A j \in 1..(k - 1) : s[j] # sep
         IN  <<Take(s, i - 1)>> \o Split(Drop(s, i), sep)

\* strings.Join(parts, sep)
RECURSIVE JoinStr(_, _)
JoinStr(parts, sep) ==
    IF Len(parts) = 0 THEN <<>>
    ELSE IF Len(parts) = 1 THEN parts[1]
    ELSE parts[1] \o sep \o JoinStr(Tail(parts), sep)

\* strings.Trim(s, "-")
RECURSIVE TrimLeftDash(_)
TrimLeftDash(s) == IF Len(s) > 0 /\ Head(s) = "-" THEN TrimLeftDash(Tail(s)) ELSE s

RECURSIVE TrimRightDash(_)
TrimRightDash(s) ==
    IF Len(s) > 0 /\ s[Len(s)] = "-" THEN TrimRightDash(Take(s, Len(s) - 1)) ELSE s

TrimDash(s) == TrimRightDash(TrimLeftDash(s))

\* strconv.Itoa / fmt's %d for a non-negative int
Digit(d) == <<"0", "1", "2", "3", "4", "5", "6", "7", "8", "9">>[d + 1]

RECURSIVE Itoa(_)
Itoa(n) == IF n < 10 THEN <<Digit(n)>> ELSE Itoa(n \div 10) \o <<Digit(n % 10)>>

(***************************************************************************)
(* Go's path package                                                       *)
(***************************************************************************)

\* the index of the last "/" of s, 0 when there is none
LastSlash(s) ==
    IF \A i \in 1..Len(s) : s[i] # "/" THEN 0
    ELSE CHOOSE k \in 1..Len(s) : s[k] = "/" /\ \A j \in (k + 1)..Len(s) : s[j] # "/"

\* path.Clean's pass over the elements: out is the cleaned prefix
RECURSIVE CleanParts(_, _, _)
CleanParts(parts, out, rooted) ==
    IF Len(parts) = 0 THEN out
    ELSE LET e == Head(parts)
             rest == Tail(parts)
         IN  IF e = <<>> \/ e = <<".">> THEN CleanParts(rest, out, rooted)
             ELSE IF e = <<".", ".">>
                  THEN IF Len(out) > 0 /\ out[Len(out)] # <<".", ".">>
                       THEN CleanParts(rest, Take(out, Len(out) - 1), rooted)
                       ELSE IF rooted THEN CleanParts(rest, out, rooted)
                       ELSE CleanParts(rest, Append(out, e), rooted)
             ELSE CleanParts(rest, Append(out, e), rooted)

\* path.Clean
PathClean(s) ==
    IF s = <<>> THEN <<".">>
    ELSE LET rooted == s[1] = "/"
             body == JoinStr(CleanParts(Split(s, "/"), <<>>, rooted), <<"/">>)
         IN  IF rooted THEN <<"/">> \o body
             ELSE IF body = <<>> THEN <<".">> ELSE body

\* path.Dir
PathDir(s) == PathClean(Take(s, LastSlash(s)))

\* path.Base
RECURSIVE StripSlashes(_)
StripSlashes(s) ==
    IF Len(s) > 0 /\ s[Len(s)] = "/" THEN StripSlashes(Take(s, Len(s) - 1)) ELSE s

PathBase(s) ==
    IF s = <<>> THEN <<".">>
    ELSE LET t == StripSlashes(s)
             u == Drop(t, LastSlash(t))
         IN  IF u = <<>> THEN <<"/">> ELSE u

\* path.Ext: from the last "." of the final element, "" when it has none
PathExt(s) ==
    LET e == Drop(s, LastSlash(s))
    IN  IF \A i \in 1..Len(e) : e[i] # "." THEN <<>>
        ELSE LET k == CHOOSE i \in 1..Len(e) : e[i] = "." /\ \A j \in (i + 1)..Len(e) : e[j] # "."
             IN  Drop(e, k - 1)

\* path.IsAbs
PathIsAbs(s) == Len(s) > 0 /\ s[1] = "/"

\* path.Join(a, b)
PathJoin(a, b) ==
    IF a = <<>> /\ b = <<>> THEN <<>>
    ELSE IF a = <<>> THEN PathClean(b)
    ELSE IF b = <<>> THEN PathClean(a)
    ELSE PathClean(a \o <<"/">> \o b)

(***************************************************************************)
(* Names: the archive paths, local files and texts the model draws from    *)
(***************************************************************************)

OPS == <<"O", "P", "S">>
Sl == <<"/">>
AHtml == <<"a", ".", "h", "t", "m", "l">>
BXhtml == <<"b", ".", "x", "h", "t", "m", "l">>
COpf == <<"c", ".", "o", "p", "f">>
CPng == <<"c", ".", "p", "n", "g">>
Img == <<"i", "m", "g">>
Mimetype == <<"m", "i", "m", "e", "t", "y", "p", "e">>

XhtmlType == <<"application/xhtml+xml">>
PngType == <<"image/png">>

\* zip.Store and zip.Deflate
Store == 0
Deflate == 8

(***************************************************************************)
(* Path helpers of the package                                             *)
(***************************************************************************)

normalizeZipPath(pth) == PathClean(ReplaceAll(pth, <<"\\">>, <<"/">>))

isOPFFile(name) == HasSuffix(ToLower(name), <<".", "o", "p", "f">>)

\* the three suffixes isHTMLEntry tests the lowered name for
HasHTMLSuffix(name) ==
    \/ HasSuffix(name, <<".", "h", "t", "m", "l">>)
    \/ HasSuffix(name, <<".", "x", "h", "t", "m", "l">>)
    \/ HasSuffix(name, <<".", "h", "t", "m">>)

isHTMLEntry(entry) == HasHTMLSuffix(ToLower(entry.name))

\* hrefForOPF: [err, href]
hrefForOPF(p, norm) ==
    IF p.opfDir = <<>> THEN [err |-> "", href |-> norm]
    ELSE IF ~HasPrefix(norm, p.opfDir \o <<"/">>)
         THEN [err |-> "OutsidePackageDir", href |-> <<>>]
    ELSE [err |-> "", href |-> Drop(norm, Len(p.opfDir) + 1)]

IsAlnum(c) ==
    c \in {"a", "b", "c", "d", "e", "f", "g", "h", "i", "j", "k", "l", "m", "n", "o",
           "p", "q", "r", "s", "t", "u", "v", "w", "x", "y", "z",
           "0", "1", "2", "3", "4", "5", "6", "7", "8", "9"}

\* regexp [^a-z0-9]+ replaced by "-": each maximal run becomes one "-"
RECURSIVE CollapseNonAlnum(_)
CollapseNonAlnum(s) ==
    IF s = <<>> THEN <<>>
    ELSE IF IsAlnum(Head(s)) THEN <<Head(s)>> \o CollapseNonAlnum(Tail(s))
    ELSE IF Len(s) > 1 /\ ~IsAlnum(s[2]) THEN CollapseNonAlnum(Tail(s))
    ELSE <<"-">> \o CollapseNonAlnum(Tail(s))

sanitizeID(base) ==
    IF base = <<>> THEN <<"c", "h", "a", "p", "t", "e", "r">>
    ELSE LET b == TrimDash(CollapseNonAlnum(ToLower(base)))
         IN  IF b = <<>> THEN <<"c", "h", "a", "p", "t", "e", "r">> ELSE b

\* a generateID that leaves the counter where it is
generateIDStale(p, base) ==
    LET id == <<"i", "t", "e", "m", "-">> \o sanitizeID(base) \o <<"-">>
                  \o Itoa(p.idCounter + 1)
    IN  [p |-> [p EXCEPT !.issued = Append(@, id)], id |-> id]

\* generateID: [p, id]; issued is the history of the ids generated in the session
generateID(p, base) ==
    LET n == p.idCounter + 1
        id == <<"i", "t", "e", "m", "-">> \o sanitizeID(base) \o <<"-">> \o Itoa(n)
    IN  [p |-> [p EXCEPT !.idCounter = n, !.issued = Append(@, id)], id |-> id]

(***************************************************************************)
(* Open                                                                    *)
(***************************************************************************)

\* xml.Unmarshal of the descriptor member: the document its bytes encode
Unmarshal(member) == member.doc

\* the loop of Open over reader.File
RECURSIVE OpenMembers(_, _)
OpenMembers(p, files) ==
    IF files = <<>> THEN p
    ELSE LET f == Head(files)
             entry == [name |-> f.name, method |-> f.method, isDir |-> f.isDir,
                       removed |-> FALSE, data |-> IF f.isDir THEN <<>> ELSE f.data]
             normName == normalizeZipPath(f.name)
             dir == normalizeZipPath(PathDir(normName))
             q == IF ~f.isDir /\ isOPFFile(f.name)
                  THEN [p EXCEPT !.opfPath = normName,
                                 !.opfDir = IF dir = <<".">> THEN <<>> ELSE dir,
                                 !.hasDoc = TRUE,
                                 !.manifest = Unmarshal(f).manifest,
                                 !.spine = Unmarshal(f).spine,
                                 !.idCounter = Len(Unmarshal(f).manifest)]
                  ELSE p
             r == [q EXCEPT !.entries = Append(@, entry),
                            !.entryIndex = (normName :> (Len(q.entries) + 1)) @@ @]
         IN  OpenMembers(r, Tail(files))

EmptyEpub ==
    [entries |-> <<>>, entryIndex |-> <<>>, opfPath |-> <<>>, opfDir |-> <<>>,
     hasDoc |-> FALSE, manifest |-> <<>>, spine |-> <<>>, idCounter |-> 0,
     issued |-> <<>>]

Open(archive) == OpenMembers(EmptyEpub, archive)

(***************************************************************************)
(* Internal tools                                                          *)
(***************************************************************************)

\* the loop of ensureDirectories over the parts of dir; curr is the prefix so far
RECURSIVE EnsureParts(_, _, _)
EnsureParts(p, parts, curr) ==
    IF parts = <<>> THEN p
    ELSE LET c == IF curr = <<>> THEN Head(parts) ELSE curr \o <<"/">> \o Head(parts)
             entry == [name |-> c \o <<"/">>, method |-> Store, isDir |-> TRUE,
                       removed |-> FALSE, data |-> <<>>]
             q == IF c \in DOMAIN p.entryIndex THEN p
                  ELSE [p EXCEPT !.entries = Append(@, entry),
                                 !.entryIndex = (c :> (Len(p.entries) + 1)) @@ @]
         IN  EnsureParts(q, Tail(parts), c)

ensureDirectories(p, norm) ==
    LET dir == normalizeZipPath(PathDir(norm))
    IN  IF dir = <<".">> \/ dir = <<>> THEN p
        ELSE EnsureParts(p, Split(dir, "/"), <<>>)

\* an insertion that overwrites the itemref it should shift
InsertSpineOver(spine, itemRef, spineIndex) ==
    IF spineIndex < 0 \/ spineIndex >= Len(spine) THEN Append(spine, itemRef)
    ELSE Take(spine, spineIndex) \o <<itemRef>> \o Drop(spine, spineIndex + 1)

\* an insertion that ignores the index
InsertSpineLast(spine, itemRef, spineIndex) == Append(spine, itemRef)

\* the spine with itemRef at spineIndex, appended when spineIndex is out of range
InsertSpine(spine, itemRef, spineIndex) ==
    IF spineIndex < 0 \/ spineIndex >= Len(spine) THEN Append(spine, itemRef)
    ELSE Take(spine, spineIndex) \o <<itemRef>> \o Drop(spine, spineIndex)

\* addToOPF: [p, err]
addToOPF(p, norm, spineIndex) ==
    LET h == hrefForOPF(p, norm)
        g == generateID(p, PathBase(norm))
        item == [id |-> g.id, href |-> h.href, mediaType |-> XhtmlType]
    IN  IF ~p.hasDoc THEN [p |-> p, err |-> "NotLoaded"]
        ELSE IF h.err # "" THEN [p |-> p, err |-> h.err]
        ELSE [p |-> [g.p EXCEPT !.manifest = Append(@, item),
                                !.spine = InsertSpine(@, [idref |-> g.id], spineIndex)],
              err |-> ""]

SelectSeqBy(s, keep) ==
    LET F[i \in 0..Len(s)] ==
            IF i = 0 THEN <<>>
            ELSE IF i \in keep THEN Append(F[i - 1], s[i]) ELSE F[i - 1]
    IN  F[Len(s)]

\* a removal that does not cascade into the spine
CascadeNothing(spine, removedIDs) == spine

\* the spine of removeFromOPF: the itemrefs whose idref is not among removedIDs
CascadeSpine(spine, removedIDs) ==
    SelectSeqBy(spine, {i \in 1..Len(spine) : spine[i].idref \notin removedIDs})

removeFromOPF(p, href) ==
    LET target == normalizeZipPath(href)
        gone == {i \in 1..Len(p.manifest) : normalizeZipPath(p.manifest[i].href) = target}
        removedIDs == {p.manifest[i].id : i \in gone}
    IN  [p EXCEPT !.manifest = SelectSeqBy(@, (1..Len(@)) \ gone),
                  !.spine = CascadeSpine(@, removedIDs)]

\* removeEntry: [p, err]
removeEntry(p, norm) ==
    IF norm \notin DOMAIN p.entryIndex THEN [p |-> p, err |-> "NotFound"]
    ELSE LET i == p.entryIndex[norm]
             q == [p EXCEPT !.entries[i].removed = TRUE]
             h == hrefForOPF(q, norm)
         IN  IF p.entries[i].removed THEN [p |-> p, err |-> ""]
             ELSE IF ~p.hasDoc THEN [p |-> q, err |-> ""]
             ELSE IF h.err # "" THEN [p |-> q, err |-> h.err]
             ELSE [p |-> removeFromOPF(q, h.href), err |-> ""]

(***************************************************************************)
(* Public operations                                                       *)
(***************************************************************************)

\* a lookup that does not see the removed entries
HasLiveEntry(p, norm) ==
    norm \in DOMAIN p.entryIndex /\ ~p.entries[p.entryIndex[norm]].removed

\* _, ok := p.entryIndex[norm]
HasEntry(p, norm) == norm \in DOMAIN p.entryIndex

\* AddChapter: [p, err]
AddChapter(p, filePath, html, spineIndex) ==
    LET norm == normalizeZipPath(filePath)
        q == ensureDirectories(p, norm)
        entry == [name |-> norm, method |-> Deflate, isDir |-> FALSE,
                  removed |-> FALSE, data |-> html]
        r == [q EXCEPT !.entries = Append(@, entry),
                       !.entryIndex = (norm :> (Len(q.entries) + 1)) @@ @]
    IN  IF filePath = <<>> THEN [p |-> p, err |-> "Validation"]
        ELSE IF HasEntry(p, norm) THEN [p |-> p, err |-> "AlreadyExists"]
        ELSE addToOPF(r, norm, spineIndex)

\* RemoveFileByName: [p, err]
RemoveFileByName(p, filePath) == removeEntry(p, normalizeZipPath(filePath))

\* the normalized paths of the entries a scan over p.entryIndex does not skip
LiveHTML(p) ==
    {k \in DOMAIN p.entryIndex :
        /\ ~p.entries[p.entryIndex[k]].removed
        /\ isHTMLEntry(p.entries[p.entryIndex[k]])}

\* Go ranges over a map in an unspecified order: every order of the keys
RECURSIVE Orders(_)
Orders(S) ==
    IF S = {} THEN {<<>>}
    ELSE UNION {{<<k>> \o o : o \in Orders(S \ {k})} : k \in S}

\* one of the orders of S
RECURSIVE OneOrder(_)
OneOrder(S) ==
    IF S = {} THEN <<>>
    ELSE <<CHOOSE k \in S : TRUE>> \o OneOrder(S \ {CHOOSE k \in S : TRUE})

shouldRemoveHTML(htmlContent, keywords) ==
    \E i \in 1..Len(keywords) : keywords[i] # <<>> /\ Contains(htmlContent, keywords[i])

\* the entries of a scan whose content has one of the texts.  A scan passes over
\* the other entries without any effect, wherever they come in the order, so the
\* order of these entries is all of the order a scan for the texts depends on
Matching(p, texts) ==
    {k \in LiveHTML(p) : shouldRemoveHTML(p.entries[p.entryIndex[k]].data, texts)}

\* the loop of RemoveHTMLContaining over the keys in order: [p, err, names]
RECURSIVE RemoveLoop(_, _, _, _)
RemoveLoop(p, order, keywords, removed) ==
    IF order = <<>> THEN [p |-> p, err |-> "", names |-> removed]
    ELSE LET norm == Head(order)
             entry == p.entries[p.entryIndex[norm]]
             r == removeEntry(p, norm)
         IN  IF ~shouldRemoveHTML(entry.data, keywords)
             THEN RemoveLoop(p, Tail(order), keywords, removed)
             ELSE IF r.err # "" THEN [p |-> r.p, err |-> r.err, names |-> <<>>]
             ELSE RemoveLoop(r.p, Tail(order), keywords, Append(removed, entry.name))

\* RemoveHTMLContaining: [p, err, names]
RemoveHTMLContaining(p, keywords, order) ==
    IF Len(keywords) = 0 THEN [p |-> p, err |-> "", names |-> <<>>]
    ELSE RemoveLoop(p, order, keywords, <<>>)

\* the loop of ReplaceAllHTML: [p, n]
RECURSIVE ReplaceLoop(_, _, _, _, _)
ReplaceLoop(p, order, oldText, newText, count) ==
    IF order = <<>> THEN [p |-> p, n |-> count]
    ELSE LET i == p.entryIndex[Head(order)]
             html == p.entries[i].data
             replaced == Count(html, oldText)
         IN  IF replaced = 0 THEN ReplaceLoop(p, Tail(order), oldText, newText, count)
             ELSE ReplaceLoop([p EXCEPT !.entries[i].data = ReplaceAll(html, oldText, newText)],
                              Tail(order), oldText, newText, count + replaced)

\* ReplaceAllHTML: [p, err, n]
ReplaceAllHTML(p, oldText, newText, order) ==
    IF oldText = <<>> THEN [p |-> p, err |-> "Validation", n |-> 0]
    ELSE LET r == ReplaceLoop(p, order, oldText, newText, 0)
         IN  [p |-> r.p, err |-> "", n |-> r.n]

\* the callbacks a caller passes to ApplyHTML: [err, html]
CallFn(fn, name, html) ==
    LET Marked == IF HasSuffix(html, <<"!">>) THEN html ELSE Append(html, "!")
    IN  CASE fn = "nil" -> [err |-> "", html |-> html]
          [] fn = "mark" -> [err |-> "", html |-> Marked]
          [] fn = "failX" ->
                IF HasSuffix(name, <<".", "x", "h", "t", "m", "l">>)
                THEN [err |-> "Callback", html |-> <<>>]
                ELSE [err |-> "", html |-> Marked]

\* the loop of ApplyHTML: [p, err, n]
RECURSIVE ApplyLoop(_, _, _, _)
ApplyLoop(p, order, fn, modified) ==
    IF order = <<>> THEN [p |-> p, err |-> "", n |-> modified]
    ELSE LET i == p.entryIndex[Head(order)]
             original == p.entries[i].data
             u == CallFn(fn, p.entries[i].name, original)
         IN  IF u.err # "" THEN [p |-> p, err |-> u.err, n |-> 0]
             ELSE IF u.html # original
                  THEN ApplyLoop([p EXCEPT !.entries[i].data = u.html], Tail(order), fn,
                                 modified + 1)
             ELSE ApplyLoop(p, Tail(order), fn, modified)

\* the entries of a scan on which the callback fails
FailingHTML(p, fn) ==
    {k \in LiveHTML(p) :
        CallFn(fn, p.entries[p.entryIndex[k]].name, p.entries[p.entryIndex[k]].data).err # ""}

\* The orders of the scan of ApplyHTML that differ in their result.  The callback
\* is given each entry, and what it makes of one entry does not depend on the
\* others, so the order counts only where the scan stops early, on a failure:
\* the result depends on which entries come before the first failing one, and
\* on which entry that is
ScanOrders(p, fn) ==
    IF FailingHTML(p, fn) = {} THEN {OneOrder(LiveHTML(p))}
    ELSE {OneOrder(S) \o <<f>> \o OneOrder(LiveHTML(p) \ (S \cup {f})) :
              S \in SUBSET (LiveHTML(p) \ FailingHTML(p, fn)), f \in FailingHTML(p, fn)}

\* an ApplyHTML that undoes what it rewrote when the callback fails
ApplyHTMLUndo(p, fn, order) ==
    IF fn = "nil" THEN [p |-> p, err |-> "", n |-> 0]
    ELSE IF ApplyLoop(p, order, fn, 0).err # ""
         THEN [p |-> p, err |-> ApplyLoop(p, order, fn, 0).err, n |-> 0]
    ELSE ApplyLoop(p, order, fn, 0)

\* ApplyHTML: [p, err, n]
ApplyHTML(p, fn, order) ==
    IF fn = "nil" THEN [p |-> p, err |-> "", n |-> 0]
    ELSE ApplyLoop(p, order, fn, 0)

\* FindHTMLByText: [err, names]
FindHTMLByText(p, text, order) ==
    IF text = <<>> THEN [err |-> "Validation", names |-> <<>>]
    ELSE LET hit == {i \in 1..Len(order) :
                        Contains(p.entries[p.entryIndex[order[i]]].data, text)}
         IN  [err |-> "",
              names |-> SelectSeqBy([i \in 1..Len(order) |->
                                        p.entries[p.entryIndex[order[i]]].name], hit)]

(***************************************************************************)
(* Importing a chapter from a local HTML file.                             *)
(*                                                                         *)
(* The two regular expressions of the code recognise an image reference by *)
(* the markup around it.  The model writes that markup as one element of   *)
(* the text: ImgQ ... EndImgQ is <img src="..."> and ImgU ... EndImgU is   *)
(* <img src=...>, UrlQ ... EndUrlQ is url('...') and UrlU ... EndUrlU is   *)
(* url(...).  The extracting expressions accept the quoted and the         *)
(* unquoted forms, the rewriting expressions only the quoted ones.         *)
(***************************************************************************)

ImgQ == "<img src=\""
EndImgQ == "\">"
ImgU == "<img src="
EndImgU == ">"
UrlQ == "url('"
EndUrlQ == "')"
UrlU == "url("
EndUrlU == ")"

CloserOf(open) ==
    CASE open = ImgQ -> EndImgQ
      [] open = ImgU -> EndImgU
      [] open = UrlQ -> EndUrlQ
      [] open = UrlU -> EndUrlU

\* the text cut into its references [open, src] and its other characters (open = "")
RECURSIVE Lex(_)
Lex(html) ==
    IF html = <<>> THEN <<>>
    ELSE IF /\ Head(html) \in {ImgQ, ImgU, UrlQ, UrlU}
            /\ \E j \in 2..Len(html) : html[j] = CloserOf(Head(html))
         THEN LET j == CHOOSE k \in 2..Len(html) :
                          /\ html[k] = CloserOf(Head(html))
                          /\ \A m \in 2..(k - 1) : html[m] # CloserOf(Head(html))
              IN  <<[open |-> Head(html), src |-> SubSeq(html, 2, j - 1)]>>
                      \o Lex(Drop(html, j))
         ELSE <<[open |-> "", src |-> <<Head(html)>>]>> \o Lex(Tail(html))

\* the submatches of FindAllStringSubmatch for the references opened by one of opens
Submatches(html, opens) ==
    LET parts == Lex(html)
    IN  SelectSeqBy([i \in 1..Len(parts) |-> parts[i].src],
                    {i \in 1..Len(parts) : parts[i].open \in opens})

\* a test of the external prefixes that misses https://
IsExternalPlain(src) ==
    \/ HasPrefix(src, <<"d", "a", "t", "a", ":">>)
    \/ HasPrefix(src, <<"h", "t", "t", "p", ":", "/", "/">>)
    \/ HasPrefix(src, <<"/", "/">>)

IsExternal(src) ==
    \/ HasPrefix(src, <<"d", "a", "t", "a", ":">>)
    \/ HasPrefix(src, <<"h", "t", "t", "p", ":", "/", "/">>)
    \/ HasPrefix(src, <<"h", "t", "t", "p", "s", ":", "/", "/">>)
    \/ HasPrefix(src, <<"/", "/">>)

\* the local path a reference resolves to
FullPath(htmlDir, src) == PathClean(IF PathIsAbs(src) THEN src ELSE PathJoin(htmlDir, src))

IsImageExt(ext) ==
    ext \in { <<".", "j", "p", "g">>, <<".", "j", "p", "e", "g">>, <<".", "p", "n", "g">>,
              <<".", "g", "i", "f">>, <<".", "s", "v", "g">>, <<".", "w", "e", "b", "p">>,
              <<".", "b", "m", "p">> }

\* one loop of extractImagePathsFromHTML: paths is imagePaths, and seen as well
RECURSIVE ExtractLoop(_, _, _, _)
ExtractLoop(srcs, htmlDir, onlyImages, paths) ==
    IF srcs = <<>> THEN paths
    ELSE LET src == Head(srcs)
             fullPath == FullPath(htmlDir, src)
             skip == \/ IsExternal(src)
                     \/ onlyImages /\ ~IsImageExt(ToLower(PathExt(fullPath)))
                     \/ \E i \in 1..Len(paths) : paths[i] = fullPath
         IN  ExtractLoop(Tail(srcs), htmlDir, onlyImages,
                         IF skip THEN paths ELSE Append(paths, fullPath))

extractImagePathsFromHTML(htmlContent, htmlDir) ==
    LET imgs == ExtractLoop(Submatches(htmlContent, {ImgQ, ImgU}), htmlDir, FALSE, <<>>)
    IN  ExtractLoop(Submatches(htmlContent, {UrlQ, UrlU}), htmlDir, TRUE, imgs)

\* the media type addImageToManifest derives from the extension
ImageMediaType(ext) ==
    CASE ext = <<".", "p", "n", "g">> -> <<"image/png">>
      [] ext = <<".", "g", "i", "f">> -> <<"image/gif">>
      [] ext = <<".", "s", "v", "g">> -> <<"image/svg+xml">>
      [] ext = <<".", "w", "e", "b", "p">> -> <<"image/webp">>
      [] ext = <<".", "b", "m", "p">> -> <<"image/bmp">>
      [] OTHER -> <<"image/jpeg">>

\* addImageToManifest: [p, err]
addImageToManifest(p, norm) ==
    LET h == hrefForOPF(p, norm)
        g == generateID(p, PathBase(norm))
        item == [id |-> g.id, href |-> h.href,
                 mediaType |-> ImageMediaType(ToLower(PathExt(norm)))]
    IN  IF ~p.hasDoc THEN [p |-> p, err |-> "NotLoaded"]
        ELSE IF h.err # "" THEN [p |-> p, err |-> h.err]
        ELSE [p |-> [g.p EXCEPT !.manifest = Append(@, item)], err |-> ""]

\* addImageFile: [p, err]
addImageFile(p, epubImgPath, imgData) ==
    LET norm == normalizeZipPath(epubImgPath)
        q == ensureDirectories(p, norm)
        entry == [name |-> norm, method |-> Deflate, isDir |-> FALSE,
                  removed |-> FALSE, data |-> imgData]
        r == [q EXCEPT !.entries = Append(@, entry),
                       !.entryIndex = (norm :> (Len(q.entries) + 1)) @@ @]
    IN  IF norm \in DOMAIN p.entryIndex THEN [p |-> p, err |-> ""]
        ELSE addImageToManifest(r, norm)

\* a relative path that climbs from fromDir to the root, common prefix or not
calculateRelativePathFromRoot(fromDir, toPath) ==
    IF fromDir = <<>> \/ fromDir = <<".">> THEN toPath
    ELSE JoinStr([i \in 1..Len(Split(normalizeZipPath(fromDir), "/")) |-> <<".", ".">>]
                     \o Split(normalizeZipPath(toPath), "/"), <<"/">>)

\* calculateRelativePath
calculateRelativePath(fromDir, toPath) ==
    IF fromDir = <<>> \/ fromDir = <<".">> THEN toPath
    ELSE LET fromParts == Split(normalizeZipPath(fromDir), "/")
             toParts == Split(normalizeZipPath(toPath), "/")
             minLen == IF Len(toParts) < Len(fromParts) THEN Len(toParts)
                       ELSE Len(fromParts)
             commonLen == CHOOSE n \in 0..minLen :
                              /\ \A i \in 1..n : fromParts[i] = toParts[i]
                              /\ n < minLen => fromParts[n + 1] # toParts[n + 1]
             relParts == [i \in 1..(Len(fromParts) - commonLen) |-> <<".", ".">>]
                             \o Drop(toParts, commonLen)
         IN  IF Len(relParts) = 0 THEN PathBase(toPath)
             ELSE JoinStr(relParts, <<"/">>)

\* what the replacement function of updateImagePathsInHTML returns for one match
Rewritten(part, fullPath, imageMap, epubChapterDir) ==
    IF IsExternal(part.src) \/ fullPath \notin DOMAIN imageMap
    THEN <<part.open>> \o part.src \o <<CloserOf(part.open)>>
    ELSE <<part.open>> \o calculateRelativePath(epubChapterDir, imageMap[fullPath])
             \o <<CloserOf(part.open)>>

\* one ReplaceAllStringFunc pass of updateImagePathsInHTML over the references
\* opened by open; imageMap is a function from local paths to archive paths
RECURSIVE UpdateParts(_, _, _, _, _)
UpdateParts(parts, open, imageMap, htmlDir, epubChapterDir) ==
    IF parts = <<>> THEN <<>>
    ELSE (IF Head(parts).open = "" THEN Head(parts).src
          ELSE IF Head(parts).open # open
               THEN <<Head(parts).open>> \o Head(parts).src
                        \o <<CloserOf(Head(parts).open)>>
          ELSE Rewritten(Head(parts), FullPath(htmlDir, Head(parts).src), imageMap,
                         epubChapterDir))
             \o UpdateParts(Tail(parts), open, imageMap, htmlDir, epubChapterDir)

UpdatePass(html, open, imageMap, htmlDir, epubChapterDir) ==
    UpdateParts(Lex(html), open, imageMap, htmlDir, epubChapterDir)

updateImagePathsInHTML(htmlContent, imageMap, htmlDir, epubChapterDir, imageBaseDir) ==
    UpdatePass(UpdatePass(htmlContent, ImgQ, imageMap, htmlDir, epubChapterDir),
               UrlQ, imageMap, htmlDir, epubChapterDir)

\* the loop of AddChapterFromFile over imagePaths: [p, err, imageMap]; disk is the
\* local file system, a function from the readable paths to their bytes
RECURSIVE ImportLoop(_, _, _, _, _)
ImportLoop(p, imagePaths, imageBaseDir, imageMap, disk) ==
    IF imagePaths = <<>> THEN [p |-> p, err |-> "", imageMap |-> imageMap]
    ELSE LET imgPath == Head(imagePaths)
             epubImgPath == normalizeZipPath(imageBaseDir \o <<"/">> \o PathBase(imgPath))
             mapped == (imgPath :> epubImgPath) @@ imageMap
             r == addImageFile(p, epubImgPath, disk[imgPath])
         IN  IF epubImgPath \in DOMAIN p.entryIndex
             THEN ImportLoop(p, Tail(imagePaths), imageBaseDir, mapped, disk)
             ELSE IF imgPath \notin DOMAIN disk
                  THEN ImportLoop(p, Tail(imagePaths), imageBaseDir, imageMap, disk)
             ELSE IF r.err # "" THEN [p |-> r.p, err |-> r.err, imageMap |-> imageMap]
             ELSE ImportLoop(r.p, Tail(imagePaths), imageBaseDir, mapped, disk)

\* the end of AddChapterFromFile, once the images are imported (imp is what the
\* loop over imagePaths left)
AddImportedChapter(imp, epubChapterPath, htmlContent, htmlDir, epubChapterDir, imageBaseDir, spineIndex) ==
    IF imp.err # "" THEN [p |-> imp.p, err |-> imp.err]
    ELSE AddChapter(imp.p, epubChapterPath,
                    updateImagePathsInHTML(htmlContent, imp.imageMap, htmlDir,
                                           epubChapterDir, imageBaseDir),
                    spineIndex)

\* the directory AddChapterFromFile puts the images in
ImageBaseDir(p, epubChapterDir) ==
    normalizeZipPath(
        IF p.opfDir # <<>> THEN p.opfDir \o <<"/", "s", "t", "a", "t", "i", "c", "_",
                                              "i", "m", "a", "g", "e", "s">>
        ELSE IF epubChapterDir = <<>>
             THEN <<"s", "t", "a", "t", "i", "c", "_", "i", "m", "a", "g", "e", "s">>
        ELSE epubChapterDir \o <<"/", "s", "t", "a", "t", "i", "c", "_",
                                 "i", "m", "a", "g", "e", "s">>)

\* AddChapterFromFile after its two validations
ImportChapter(p, epubChapterPath, htmlContent, htmlDir, epubChapterDir, imageBaseDir, spineIndex, disk) ==
    AddImportedChapter(ImportLoop(p, extractImagePathsFromHTML(htmlContent, htmlDir),
                                  imageBaseDir, <<>>, disk),
                       epubChapterPath, htmlContent, htmlDir, epubChapterDir,
                       imageBaseDir, spineIndex)

\* "." as the chapter's directory stands for the archive root
ChapterDir(epubChapterPath) ==
    IF normalizeZipPath(PathDir(epubChapterPath)) = <<".">> THEN <<>>
    ELSE normalizeZipPath(PathDir(epubChapterPath))

\* AddChapterFromFile: [p, err]
AddChapterFromFile(p, epubChapterPath, htmlFilePath, spineIndex, disk) ==
    IF epubChapterPath = <<>> \/ htmlFilePath = <<>> THEN [p |-> p, err |-> "Validation"]
    ELSE IF htmlFilePath \notin DOMAIN disk THEN [p |-> p, err |-> "ReadFile"]
    ELSE ImportChapter(p, epubChapterPath, disk[htmlFilePath], PathDir(htmlFilePath),
                       ChapterDir(epubChapterPath),
                       ImageBaseDir(p, ChapterDir(epubChapterPath)), spineIndex, disk)

(***************************************************************************)
(* Save                                                                    *)
(***************************************************************************)

\* serializeOPF: the descriptor text of the manifest and the spine
serializeOPF(doc) ==
    LET ItemText(it) == <<"<item id=">> \o it.id \o <<" href=">> \o it.href
                            \o <<" media-type=">> \o it.mediaType \o <<"/>">>
        RefText(r) == <<"<itemref idref=">> \o r.idref \o <<"/>">>
        M[i \in 0..Len(doc.manifest)] ==
            IF i = 0 THEN <<>> ELSE M[i - 1] \o ItemText(doc.manifest[i])
        S[i \in 0..Len(doc.spine)] ==
            IF i = 0 THEN <<>> ELSE S[i - 1] \o RefText(doc.spine[i])
    IN  <<"<?xml?>", "<package>", "<metadata/>", "<manifest>">> \o M[Len(doc.manifest)]
            \o <<"</manifest>", "<spine>">> \o S[Len(doc.spine)]
            \o <<"</spine>", "</package>">>

\* a flush that adds the descriptor text to what the entry holds
flushOPFAppend(p) ==
    IF ~p.hasDoc THEN [p |-> p, err |-> ""]
    ELSE IF p.opfPath \notin DOMAIN p.entryIndex THEN [p |-> p, err |-> "NotFound"]
    ELSE [p |-> [p EXCEPT !.entries[p.entryIndex[p.opfPath]].data =
                              @ \o serializeOPF([manifest |-> p.manifest, spine |-> p.spine])],
          err |-> ""]

\* flushOPF: [p, err]
flushOPF(p) ==
    IF ~p.hasDoc THEN [p |-> p, err |-> ""]
    ELSE IF p.opfPath \notin DOMAIN p.entryIndex THEN [p |-> p, err |-> "NotFound"]
    ELSE [p |-> [p EXCEPT !.entries[p.entryIndex[p.opfPath]].data =
                              serializeOPF([manifest |-> p.manifest, spine |-> p.spine])],
          err |-> ""]

\* writeDirEntry and writeFileEntry: the member CreateHeader is given
writeDirEntry(entry) ==
    [name |-> IF HasSuffix(entry.name, <<"/">>) THEN entry.name ELSE entry.name \o <<"/">>,
     method |-> Store, data |-> <<>>]

writeFileEntry(entry) ==
    [name |-> entry.name,
     method |-> IF entry.method = 0 THEN Deflate ELSE entry.method,
     data |-> entry.data]

\* a loop that writes the removed entries as well
WrittenMembersAll(p, n) ==
    LET F[i \in 0..n] ==
            IF i = 0 THEN <<>>
            ELSE IF p.entries[i].isDir THEN Append(F[i - 1], writeDirEntry(p.entries[i]))
            ELSE Append(F[i - 1], writeFileEntry(p.entries[i]))
    IN  F[n]

\* the members the loop of Save writes for the first n entries
WrittenMembers(p, n) ==
    LET F[i \in 0..n] ==
            IF i = 0 THEN <<>>
            ELSE IF p.entries[i].removed THEN F[i - 1]
            ELSE IF p.entries[i].isDir THEN Append(F[i - 1], writeDirEntry(p.entries[i]))
            ELSE Append(F[i - 1], writeFileEntry(p.entries[i]))
    IN  F[n]

\* no file at the output path
NoFile == [exists |-> FALSE, members |-> <<>>, finalized |-> FALSE]

\* Save: [p, err, out]; env is what the file system does: "ok", "create" (os.Create
\* fails), "write" (the write of entry `at` fails) or "close" (closing the zip
\* writer fails, so that the central directory is not written); out is the file
\* left at outputPath
Save(p, outputPath, env, at) ==
    LET f == flushOPF(p)
    IN  IF outputPath = <<>> THEN [p |-> p, err |-> "Validation", out |-> NoFile]
        ELSE IF f.err # "" THEN [p |-> f.p, err |-> f.err, out |-> NoFile]
        ELSE IF env = "create" THEN [p |-> f.p, err |-> "Create", out |-> NoFile]
        ELSE IF env = "write" /\ at \in 1..Len(p.entries) /\ ~p.entries[at].removed
             THEN [p |-> f.p, err |-> "Write",
                   out |-> [exists |-> TRUE, members |-> WrittenMembers(f.p, at - 1),
                            finalized |-> TRUE]]
        ELSE [p |-> f.p, err |-> "",
              out |-> [exists |-> TRUE, members |-> WrittenMembers(f.p, Len(f.p.entries)),
                       finalized |-> env # "close"]]

(***************************************************************************)
(* The input archives and the arguments the callers pass                    *)
(***************************************************************************)

NoDoc == [manifest |-> <<>>, spine |-> <<>>]

File(name, method, data) ==
    [name |-> name, isDir |-> FALSE, method |-> method, data |-> data, doc |-> NoDoc]

Dir(name) == [name |-> name, isDir |-> TRUE, method |-> Store, data |-> <<>>, doc |-> NoDoc]

Descriptor(name, doc) ==
    [name |-> name, isDir |-> FALSE, method |-> Deflate, data |-> <<"opf-original">>,
     doc |-> doc]

Item(id, href, mediaType) == [id |-> id, href |-> href, mediaType |-> mediaType]

Draft == <<"D", "R", "A", "F", "T">>
LowerDraft == <<"d", "r", "a", "f", "t", "a", "a", "a", "a", "a">>
NewHtml == <<"n", "e", "w">>

\* a conventional container: descriptor and content under OPS/
ArchiveOPS ==
    << File(Mimetype, Store, <<"e", "p", "u", "b">>),
       Dir(OPS \o Sl),
       Descriptor(OPS \o Sl \o COpf,
                  [manifest |-> << Item(<<"a">>, AHtml, XhtmlType),
                                   Item(<<"b">>, BXhtml, XhtmlType),
                                   Item(<<"c">>, Img \o Sl \o CPng, PngType) >>,
                   spine |-> << [idref |-> <<"a">>], [idref |-> <<"b">>] >>]),
       File(OPS \o Sl \o AHtml, Deflate, Draft),
       File(OPS \o Sl \o BXhtml, Store, LowerDraft),
       File(OPS \o Sl \o Img \o Sl \o CPng, Deflate, <<"P", "N", "G">>) >>

\* a container with the descriptor at the root, saved by an earlier session of this
\* editor: one item carries a generated id, and one of the items the counter then
\* counted has since been removed
ArchiveRoot ==
    << File(Mimetype, Store, <<"e", "p", "u", "b">>),
       Descriptor(COpf,
                  [manifest |-> << Item(<<"b">>, BXhtml, XhtmlType),
                                   Item(<<"i", "t", "e", "m", "-", "a", "-", "h", "t", "m", "l", "-", "3">>,
                                        <<"t">> \o Sl \o AHtml, XhtmlType) >>,
                   spine |-> << [idref |-> <<"b">>],
                                [idref |-> <<"i", "t", "e", "m", "-", "a", "-", "h", "t", "m", "l", "-", "3">>] >>]),
       File(BXhtml, Deflate, LowerDraft),
       Dir(<<"t">> \o Sl),
       File(<<"t">> \o Sl \o AHtml, Deflate, Draft) >>

\* a container two members of which differ only in a ./ segment
ArchiveTwice ==
    << Descriptor(OPS \o Sl \o COpf, [manifest |-> << Item(<<"b">>, BXhtml, XhtmlType) >>,
                                     spine |-> << [idref |-> <<"b">>] >>]),
       File(OPS \o Sl \o BXhtml, Deflate, LowerDraft),
       File(OPS \o Sl \o <<".">> \o Sl \o BXhtml, Store, Draft) >>

Archives == {ArchiveOPS, ArchiveRoot, ArchiveTwice}

ChapterPaths ==
    { OPS \o Sl \o <<"t">> \o Sl \o AHtml,
      OPS \o <<"\\", "w", "\\">> \o AHtml,
      <<"x">> \o Sl \o AHtml,
      OPS \o Sl \o AHtml,
      <<>> }

RemovePaths ==
    { OPS \o Sl \o AHtml,
      OPS \o Sl \o <<".">> \o Sl \o BXhtml,
      OPS \o Sl \o <<"t">> \o Sl \o AHtml,
      <<"t">> \o Sl \o AHtml,
      Mimetype,
      OPS,
      COpf }

SpineIndexes == {-1, 1}

\* the local file system: the readable files and their bytes
SrcP == <<"s", "/", "p", ".", "h", "t", "m", "l">>
SrcQ == <<"s", "/", "q", ".", "h", "t", "m", "l">>

\* s/p.html refers to the image s/img/c.png twice, once in quotes and once
\* without; s/q.html refers to a remote image, to inline data, to s/g/c.png,
\* which can not be read, and to s/c.png; the three images share a base name
Disk ==
    (SrcP :> (<<"p", ImgQ>> \o Img \o Sl \o CPng \o <<EndImgQ, UrlU>>
                 \o Img \o Sl \o CPng \o <<EndUrlU>>))
    @@ (SrcQ :> (<<ImgQ, "h", "t", "t", "p", "s", ":", "/", "/", "h", "/">> \o CPng
                    \o <<EndImgQ, UrlQ, "d", "a", "t", "a", ":", "x", EndUrlQ,
                         ImgQ, "g", "/">> \o CPng \o <<EndImgQ, ImgQ>> \o CPng
                    \o <<EndImgQ>>))
    @@ ((<<"s">> \o Sl \o Img \o Sl \o CPng) :> <<"I", "M", "G">>)
    @@ ((<<"s">> \o Sl \o CPng) :> <<"I", "M", "2">>)

FromFilePaths ==
    { OPS \o Sl \o <<"n", ".", "x", "h", "t", "m", "l">>,
      OPS \o Sl \o AHtml }

HtmlFiles == {SrcP, SrcQ, <<>>}

KeywordLists == { <<>>, << <<>>, Draft >>, << <<"a">>, <<"n">> >> }

Replacements == { <<<<>>, <<"b">>>>, <<<<"a", "a">>, <<"b">>>> }

Callbacks == {"nil", "mark", "failX"}

SearchTexts == { <<>>, <<"a">> }

OutputPaths == { <<>>, <<"o", ".", "e", "p", "u", "b">> }

FileSystems == {"ok", "create", "write", "close"}

\* the entry whose write fails when the file system fails a write
WriteFailsAt == 3

\* the number of calls of a session the model follows
MaxOps == 3

(***************************************************************************)
(* State                                                                   *)
(***************************************************************************)

VARIABLES
    entries,      \* p.entries: the entries in first-seen order
    entryIndex,   \* p.entryIndex: normalized path -> position in entries
    opfPath,      \* p.opfPath
    opfDir,       \* p.opfDir
    manifest,     \* p.opfDoc.Manifest.Items
    spine,        \* p.opfDoc.Spine.Items
    idCounter,    \* p.idCounter
    issued,       \* history: the ids generateID has returned in this session
    call,         \* history: the last call, its arguments and what it returned
    before,       \* history: the fields as they were when the last call began
    nops,         \* history: the number of calls made
    loaded,       \* history: the number of entries Open read from the archive
    tasks,        \* w.tasks: the tasks the channel buffers, oldest first
    closed,       \* close(w.tasks) has run
    cancelled,    \* w.cancel() has run: w.Ctx.Done() is closed
    worker,       \* each worker goroutine: where it is, and the task it runs
    submit,       \* each Submit call: where it is, or what it returned
    closer,       \* where the Close call is
    executed,     \* history: how many times each task was executed
    promised      \* history: the tasks Submit accepted before Close was called

epubVars == <<entries, entryIndex, opfPath, opfDir, manifest, spine, idCounter,
              issued, call, before, nops, loaded>>

poolVars == <<tasks, closed, cancelled, worker, submit, closer, executed, promised>>

vars == <<epubVars, poolVars>>

\* the Epub value the operations work on
Epub ==
    [entries |-> entries, entryIndex |-> entryIndex, opfPath |-> opfPath,
     opfDir |-> opfDir, hasDoc |-> TRUE, manifest |-> manifest, spine |-> spine,
     idCounter |-> idCounter, issued |-> issued]

\* the fields of the struct, without the history
Fields(p) ==
    [entries |-> p.entries, entryIndex |-> p.entryIndex, opfPath |-> p.opfPath,
     opfDir |-> p.opfDir, manifest |-> p.manifest, spine |-> p.spine,
     idCounter |-> p.idCounter]

Now == Fields(Epub)

Install(p) ==
    /\ entries' = p.entries
    /\ entryIndex' = p.entryIndex
    /\ opfPath' = p.opfPath
    /\ opfDir' = p.opfDir
    /\ manifest' = p.manifest
    /\ spine' = p.spine
    /\ idCounter' = p.idCounter
    /\ issued' = p.issued

NoCall ==
    [op |-> "idle", path |-> <<>>, arg |-> <<>>, idx |-> 0, order |-> <<>>,
     err |-> "", n |-> 0, names |-> <<>>, out |-> NoFile]

\* what every call does to the history; the caller makes one call at a time, and
\* has taken the result of the last call before it makes the next
Record(c) ==
    /\ call = NoCall
    /\ nops < MaxOps
    /\ nops' = nops + 1
    /\ loaded' = loaded
    /\ before' = Now
    /\ call' = c
    /\ UNCHANGED poolVars

\* the arguments of NewWorkerPool, and the number of tasks the callers submit
WorkNumber == 2
Buffer == 1
MaxTasks == 3

Workers == 1..WorkNumber
Tasks == 1..MaxTasks

\* NewWorkerPool: an empty channel, a live context, every worker in its loop
NewWorkerPool ==
    /\ tasks = <<>>
    /\ closed = FALSE
    /\ cancelled = FALSE
    /\ worker = [w \in Workers |-> [pc |-> "select", task |-> 0]]
    /\ submit = [t \in Tasks |-> "idle"]
    /\ closer = "idle"
    /\ executed = [t \in Tasks |-> 0]
    /\ promised = {}

Init ==
    \E a \in Archives :
        LET p == Open(a)
        IN  /\ p.hasDoc
            /\ entries = p.entries
            /\ entryIndex = p.entryIndex
            /\ opfPath = p.opfPath
            /\ opfDir = p.opfDir
            /\ manifest = p.manifest
            /\ spine = p.spine
            /\ idCounter = p.idCounter
            /\ issued = <<>>
            /\ call = NoCall
            /\ before = Fields(p)
            /\ nops = 0
            /\ loaded = Len(p.entries)
            /\ NewWorkerPool

DoAddChapter ==
    \E filePath \in ChapterPaths, spineIndex \in SpineIndexes :
        LET r == AddChapter(Epub, filePath, NewHtml, spineIndex)
        IN  /\ Record([NoCall EXCEPT !.op = "AddChapter", !.path = filePath,
                                     !.arg = NewHtml, !.idx = spineIndex, !.err = r.err])
            /\ Install(r.p)

DoAddChapterFromFile ==
    \E epubChapterPath \in FromFilePaths, htmlFilePath \in HtmlFiles :
        LET r == AddChapterFromFile(Epub, epubChapterPath, htmlFilePath, -1, Disk)
        IN  /\ Record([NoCall EXCEPT !.op = "AddChapterFromFile", !.path = epubChapterPath,
                                     !.arg = htmlFilePath, !.idx = -1, !.err = r.err])
            /\ Install(r.p)

DoRemoveFileByName ==
    \E filePath \in RemovePaths :
        LET r == RemoveFileByName(Epub, filePath)
        IN  /\ Record([NoCall EXCEPT !.op = "RemoveFileByName", !.path = filePath,
                                     !.err = r.err])
            /\ Install(r.p)

DoRemoveHTMLContaining ==
    /\ call = NoCall
    /\ nops < MaxOps
    /\ \E keywords \in KeywordLists :
       \E order \in Orders(Matching(Epub, keywords)) :
        LET r == RemoveHTMLContaining(Epub, keywords, order)
        IN  /\ Record([NoCall EXCEPT !.op = "RemoveHTMLContaining", !.arg = keywords,
                                     !.order = order, !.err = r.err, !.names = r.names])
            /\ Install(r.p)

DoReplaceAllHTML ==
    /\ call = NoCall
    /\ nops < MaxOps
    /\ \E rep \in Replacements :
        LET order == OneOrder(LiveHTML(Epub))
            r == ReplaceAllHTML(Epub, rep[1], rep[2], order)
        IN  /\ Record([NoCall EXCEPT !.op = "ReplaceAllHTML", !.arg = rep,
                                     !.err = r.err, !.n = r.n])
            /\ Install(r.p)

DoApplyHTML ==
    /\ call = NoCall
    /\ nops < MaxOps
    /\ \E fn \in Callbacks :
       \E order \in ScanOrders(Epub, fn) :
        LET r == ApplyHTML(Epub, fn, order)
        IN  /\ Record([NoCall EXCEPT !.op = "ApplyHTML", !.arg = <<fn>>, !.order = order,
                                     !.err = r.err, !.n = r.n])
            /\ Install(r.p)

DoFindHTMLByText ==
    /\ call = NoCall
    /\ nops < MaxOps
    /\ \E text \in SearchTexts :
       \E order \in Orders(Matching(Epub, <<text>>)) :
        LET r == FindHTMLByText(Epub, text, order)
        IN  /\ Record([NoCall EXCEPT !.op = "FindHTMLByText", !.arg = text,
                                     !.order = order, !.err = r.err, !.names = r.names])
            /\ Install(Epub)

\* Save returns before it touches the file system when outputPath is empty
DoSave ==
    \E outputPath \in OutputPaths, env \in FileSystems :
        LET r == Save(Epub, outputPath, env, WriteFailsAt)
        IN  /\ outputPath = <<>> => env = "ok"
            /\ Record([NoCall EXCEPT !.op = "Save", !.path = outputPath, !.arg = <<env>>,
                                     !.err = r.err, !.out = r.out])
            /\ Install(r.p)

\* the caller takes the result of the call
Return ==
    /\ call # NoCall
    /\ call' = NoCall
    /\ before' = Now
    /\ UNCHANGED <<entries, entryIndex, opfPath, opfDir, manifest, spine, idCounter,
                   issued, nops, loaded>>
    /\ UNCHANGED poolVars

Next ==
    \/ Return
    \/ DoAddChapter
    \/ DoAddChapterFromFile
    \/ DoRemoveFileByName
    \/ DoRemoveHTMLContaining
    \/ DoReplaceAllHTML
    \/ DoApplyHTML
    \/ DoFindHTMLByText
    \/ DoSave

Spec == Init /\ [][Next]_vars

(***************************************************************************)
(* The worker pool                                                         *)
(***************************************************************************)

\* a send on the closed channel has panicked: the program is gone
Panicked == \E t \in Tasks : submit[t] = "panic"

\* a caller's goroutine calls Submit(t) and reaches the select
SubmitCall(t) ==
    /\ ~Panicked
    /\ submit[t] = "idle"
    /\ submit' = [submit EXCEPT ![t] = "select"]
    /\ UNCHANGED <<tasks, closed, cancelled, worker, closer, executed, promised, epubVars>>

\* Submit: case w.tasks <- task, the channel open and with room
SubmitSend(t) ==
    /\ ~Panicked
    /\ submit[t] = "select"
    /\ ~closed
    /\ Len(tasks) < Buffer
    /\ tasks' = Append(tasks, t)
    /\ submit' = [submit EXCEPT ![t] = "true"]
    /\ promised' = IF closer = "idle" THEN promised \cup {t} ELSE promised
    /\ UNCHANGED <<closed, cancelled, worker, closer, executed, epubVars>>

\* Submit: case w.tasks <- task, the channel closed: the send panics
SubmitPanic(t) ==
    /\ ~Panicked
    /\ submit[t] = "select"
    /\ closed
    /\ submit' = [submit EXCEPT ![t] = "panic"]
    /\ UNCHANGED <<tasks, closed, cancelled, worker, closer, executed, promised, epubVars>>

\* Submit: case <-w.Ctx.Done()
SubmitCancelled(t) ==
    /\ ~Panicked
    /\ submit[t] = "select"
    /\ cancelled
    /\ submit' = [submit EXCEPT ![t] = "false"]
    /\ UNCHANGED <<tasks, closed, cancelled, worker, closer, executed, promised, epubVars>>

\* workerLoop: case task, ok := <-w.tasks with a task in the channel
WorkerReceive(w) ==
    /\ ~Panicked
    /\ worker[w].pc = "select"
    /\ tasks # <<>>
    /\ worker' = [worker EXCEPT ![w] = [pc |-> "run", task |-> Head(tasks)]]
    /\ tasks' = Tail(tasks)
    /\ UNCHANGED <<closed, cancelled, submit, closer, executed, promised, epubVars>>

\* workerLoop: task.Execute(w.Ctx) returns
WorkerExecute(w) ==
    /\ ~Panicked
    /\ worker[w].pc = "run"
    /\ executed' = [executed EXCEPT ![worker[w].task] = @ + 1]
    /\ worker' = [worker EXCEPT ![w] = [pc |-> "select", task |-> 0]]
    /\ UNCHANGED <<tasks, closed, cancelled, submit, closer, promised, epubVars>>

\* workerLoop: case task, ok := <-w.tasks with the channel closed and empty
WorkerChanClosed(w) ==
    /\ ~Panicked
    /\ worker[w].pc = "select"
    /\ closed /\ tasks = <<>>
    /\ worker' = [worker EXCEPT ![w] = [pc |-> "exited", task |-> 0]]
    /\ UNCHANGED <<tasks, closed, cancelled, submit, closer, executed, promised, epubVars>>

\* workerLoop: case <-w.Ctx.Done()
WorkerCancelled(w) ==
    /\ ~Panicked
    /\ worker[w].pc = "select"
    /\ cancelled
    /\ worker' = [worker EXCEPT ![w] = [pc |-> "exited", task |-> 0]]
    /\ UNCHANGED <<tasks, closed, cancelled, submit, closer, executed, promised, epubVars>>

\* Close: close(w.tasks)
CloseTasks ==
    /\ ~Panicked
    /\ closer = "idle"
    /\ closed' = TRUE
    /\ closer' = "closed"
    /\ UNCHANGED <<tasks, cancelled, worker, submit, executed, promised, epubVars>>

\* Close: w.cancel()
CloseCancel ==
    /\ ~Panicked
    /\ closer = "closed"
    /\ cancelled' = TRUE
    /\ closer' = "waiting"
    /\ UNCHANGED <<tasks, closed, worker, submit, executed, promised, epubVars>>

\* Close: case <-done, every worker has returned
CloseDone ==
    /\ ~Panicked
    /\ closer = "waiting"
    /\ \A w \in Workers : worker[w].pc = "exited"
    /\ closer' = "done"
    /\ UNCHANGED <<tasks, closed, cancelled, worker, submit, executed, promised, epubVars>>

\* Close: case <-time.After(timeout)
CloseTimeout ==
    /\ ~Panicked
    /\ closer = "waiting"
    /\ closer' = "timeout"
    /\ UNCHANGED <<tasks, closed, cancelled, worker, submit, executed, promised, epubVars>>

\* a step of the worker goroutine w
WorkerStep(w) ==
    \/ WorkerReceive(w)
    \/ WorkerExecute(w)
    \/ WorkerChanClosed(w)
    \/ WorkerCancelled(w)

PoolNext ==
    \/ \E t \in Tasks : SubmitCall(t)
    \/ \E t \in Tasks : SubmitSend(t)
    \/ \E t \in Tasks : SubmitPanic(t)
    \/ \E t \in Tasks : SubmitCancelled(t)
    \/ \E w \in Workers : WorkerReceive(w)
    \/ \E w \in Workers : WorkerExecute(w)
    \/ \E w \in Workers : WorkerChanClosed(w)
    \/ \E w \in Workers : WorkerCancelled(w)
    \/ CloseTasks
    \/ CloseCancel
    \/ CloseDone
    \/ CloseTimeout

\* the pool alone, no archive open
PoolInit ==
    /\ NewWorkerPool
    /\ entries = <<>>
    /\ entryIndex = <<>>
    /\ opfPath = <<>>
    /\ opfDir = <<>>
    /\ manifest = <<>>
    /\ spine = <<>>
    /\ idCounter = 0
    /\ issued = <<>>
    /\ call = NoCall
    /\ before = Fields(EmptyEpub)
    /\ nops = 0
    /\ loaded = 0

\* the scheduler runs every goroutine that can take a step, and the timer of Close
\* fires
PoolSpec ==
    /\ PoolInit
    /\ [][PoolNext]_vars
    /\ \A w \in Workers : WF_vars(WorkerStep(w))
    /\ WF_vars(CloseCancel \/ CloseDone \/ CloseTimeout)

(***************************************************************************)
(* Relative paths                                                          *)
(***************************************************************************)

\* the greatest number of segments of the paths calculateRelativePath is given
MaxSegments == 3

\* the normalized paths of at most n segments, each segment a or b
RECURSIVE PathsUpTo(_)
PathsUpTo(n) ==
    IF n = 1 THEN {<<"a">>, <<"b">>}
    ELSE PathsUpTo(n - 1)
             \cup {p \o Sl \o seg : p \in PathsUpTo(n - 1), seg \in {<<"a">>, <<"b">>}}

\* a caller computes the relative path from a directory to a path
DoCalculateRelativePath ==
    \E fromDir \in PathsUpTo(MaxSegments) \cup {<<>>, <<".">>}, toPath \in PathsUpTo(MaxSegments) :
        /\ Record([NoCall EXCEPT !.op = "calculateRelativePath", !.arg = fromDir,
                                 !.path = toPath,
                                 !.names = <<calculateRelativePath(fromDir, toPath)>>])
        /\ Install(Epub)

PathNext ==
    \/ DoCalculateRelativePath
    \/ Return

\* calculateRelativePath alone, no archive open
PathSpec == PoolInit /\ [][PathNext]_vars

\* the number of segments the two sequences of segments begin with in common
CommonSegments(fromParts, toParts) ==
    CHOOSE k \in 0..Len(fromParts) :
        /\ k <= Len(toParts)
        /\ \A i \in 1..k : fromParts[i] = toParts[i]
        /\ k < Len(fromParts) /\ k < Len(toParts) => fromParts[k + 1] # toParts[k + 1]

\* one .. for each segment of fromParts after the first k, then the segments of
\* toParts after the first k
UpAndDown(fromParts, toParts, k) ==
    JoinStr([i \in 1..(Len(fromParts) - k) |-> <<".", ".">>] \o Drop(toParts, k), Sl)

\* C27: calculateRelativePath(fromDir, toPath) is toPath for an empty fromDir and
\* for ".", and otherwise one .. for each segment of fromDir after the longest
\* common prefix of segments, followed by the segments of toPath after it
RelativePathAsSpecified ==
    call.op = "calculateRelativePath" =>
        call.names[1] =
            IF call.arg = <<>> \/ call.arg = <<".">> THEN call.path
            ELSE UpAndDown(Split(call.arg, "/"), Split(call.path, "/"),
                           CommonSegments(Split(call.arg, "/"), Split(call.path, "/")))

\* C27, amended: calculateRelativePath(fromDir, toPath) is toPath for an empty
\* fromDir and for ".", the base name of toPath when fromDir and toPath are the
\* same path, and otherwise one .. for each segment of fromDir after the longest
\* common prefix of segments, followed by the segments of toPath after it
RelativePathOrBase ==
    call.op = "calculateRelativePath" =>
        call.names[1] =
            IF call.arg = <<>> \/ call.arg = <<".">> THEN call.path
            ELSE IF call.arg = call.path THEN PathBase(call.path)
            ELSE UpAndDown(Split(call.arg, "/"), Split(call.path, "/"),
                           CommonSegments(Split(call.arg, "/"), Split(call.path, "/")))

\* a relative path was computed that climbs out of what is left of fromDir after
\* a common prefix and descends into what is left of toPath
ClimbedAndDescended ==
    /\ call.op = "calculateRelativePath"
    /\ call.arg \notin {<<>>, <<".">>}
    /\ CommonSegments(Split(call.arg, "/"), Split(call.path, "/")) >= 1
    /\ CommonSegments(Split(call.arg, "/"), Split(call.path, "/")) < Len(Split(call.arg, "/"))
    /\ CommonSegments(Split(call.arg, "/"), Split(call.path, "/")) < Len(Split(call.path, "/"))
    /\ HasPrefix(call.names[1], <<".", ".", "/">>)

\* every worker goroutine has exited
WorkersExited == \A w \in Workers : worker[w].pc = "exited"

\* C26: once the worker goroutines have exited, every task for which Submit
\* returned true before Close was called has been executed, and no task is ever
\* executed twice
GracefulClose ==
    /\ WorkersExited => \A t \in promised : executed[t] = 1
    /\ \A t \in Tasks : executed[t] <= 1

\* C30: under every interleaving of Submit and Close no Submit sends on the
\* closed channel: no Submit panics
SubmitNeverPanics == \A t \in Tasks : submit[t] # "panic"

(***************************************************************************)
(* The package document                                                    *)
(***************************************************************************)

\* the ids of the items of a manifest
IdsOf(items) == {items[i].id : i \in 1..Len(items)}

\* C1: every spine itemref names the id of a manifest item, in every state the
\* calls reach from an opened archive whose spine does, whether they fail or not
SpineResolved ==
    \A i \in 1..Len(spine) : spine[i].idref \in IdsOf(manifest)

\* a removal has taken a manifest item and its itemref out
SpineCascaded ==
    /\ call.op \in {"RemoveFileByName", "RemoveHTMLContaining"}
    /\ call.err = ""
    /\ Len(manifest) < Len(before.manifest)
    /\ Len(spine) < Len(before.spine)

\* C2: no two manifest items share an id; an id generateID returns is never one
\* the descriptor brought
ManifestIdsUnique ==
    \A i, j \in 1..Len(manifest) : manifest[i].id = manifest[j].id => i = j

\* C3: the ids generateID returns in a session are pairwise different, whatever
\* their base names and whether or not their items are still in the manifest
GeneratedIdsDistinct ==
    \A i, j \in 1..Len(issued) : issued[i] = issued[j] => i = j

\* a chapter has been added after the item of an earlier generated id was removed
GeneratedAfterRemoval ==
    /\ call.op = "AddChapter"
    /\ call.err = ""
    /\ Len(issued) >= 2
    /\ \E i \in 1..(Len(issued) - 1) : issued[i] \notin IdsOf(before.manifest)

(***************************************************************************)
(* Removing and adding chapters                                            *)
(***************************************************************************)

\* s without its k-th element
Without(s, k) == Take(s, k - 1) \o Drop(s, k)

\* the archive path a manifest href stands for
ArchivePath(p, href) == IF p.opfDir = <<>> THEN href ELSE p.opfDir \o <<"/">> \o href

\* the entry the store of p holds at norm
EntryAt(p, norm) == p.entries[p.entryIndex[norm]]

\* the call removed the file at a path whose entry was live and whose manifest
\* item was in the spine
RemovedChapter ==
    /\ call.op = "RemoveFileByName"
    /\ call.err = ""
    /\ normalizeZipPath(call.path) \in DOMAIN before.entryIndex
    /\ ~EntryAt(before, normalizeZipPath(call.path)).removed
    /\ \E k \in 1..Len(before.manifest) :
           /\ ArchivePath(before, before.manifest[k].href) = normalizeZipPath(call.path)
           /\ \E m \in 1..Len(before.spine) :
                  before.spine[m].idref = before.manifest[k].id

\* C4: removing a chapter takes out one manifest item, the one with the chapter's
\* href, and one spine itemref, the one with that item's id; the others stay in order
RemovesOneItemAndRef ==
    RemovedChapter =>
        \E k \in 1..Len(before.manifest) :
            /\ ArchivePath(before, before.manifest[k].href) = normalizeZipPath(call.path)
            /\ manifest = Without(before.manifest, k)
            /\ \E m \in 1..Len(before.spine) :
                   /\ before.spine[m].idref = before.manifest[k].id
                   /\ spine = Without(before.spine, m)

\* C5: AddChapter with a path that is not under the package directory returns an
\* error and leaves the model as it was
OutsideAddChangesNothing ==
    /\ call.op = "AddChapter"
    /\ hrefForOPF(before, normalizeZipPath(call.path)).err # ""
    => call.err # "" /\ Now = before

\* C6: when AddChapterFromFile returns an error the model is as it was before
\* the call
FailedImportChangesNothing ==
    call.op = "AddChapterFromFile" /\ call.err # "" => Now = before

\* C7: when RemoveFileByName or RemoveHTMLContaining returns an error the model
\* is as it was before the call
FailedRemovalChangesNothing ==
    /\ call.op \in {"RemoveFileByName", "RemoveHTMLContaining"}
    /\ call.err # ""
    => Now = before

\* C8: RemoveFileByName reports NotFound exactly for a path without an entry, and
\* changes nothing then; it succeeds on every entry that is not removed; on a
\* removed entry it succeeds and changes nothing
RemoveIdempotent ==
    call.op = "RemoveFileByName" =>
        IF normalizeZipPath(call.path) \notin DOMAIN before.entryIndex
        THEN call.err = "NotFound" /\ Now = before
        ELSE IF EntryAt(before, normalizeZipPath(call.path)).removed
             THEN call.err = "" /\ Now = before
        ELSE call.err = ""

\* C9: AddChapter fails with AlreadyExists and changes nothing when the store
\* holds an entry at the normalized path, a removed entry included
ExistingPathRefused ==
    /\ call.op = "AddChapter"
    /\ normalizeZipPath(call.path) \in DOMAIN before.entryIndex
    => call.err = "AlreadyExists" /\ Now = before

\* AddChapter was refused at a path whose entry an earlier call removed
RemovedPathRefused ==
    /\ call.op = "AddChapter"
    /\ call.err = "AlreadyExists"
    /\ normalizeZipPath(call.path) \in DOMAIN before.entryIndex
    /\ EntryAt(before, normalizeZipPath(call.path)).removed

\* C10: a successful AddChapter appends one file entry with the html at the
\* normalized path (after the directory entries it had to create), one manifest
\* item of type application/xhtml+xml whose href under the package directory is
\* that path, and one spine itemref with the item's id; what was there is kept
AddChapterAddsOne ==
    call.op = "AddChapter" /\ call.err = "" =>
        LET n == Len(before.entries)
            item == manifest[Len(manifest)]
        IN  /\ Len(entries) > n
            /\ Take(entries, n) = before.entries
            /\ \A i \in (n + 1)..(Len(entries) - 1) : entries[i].isDir
            /\ entries[Len(entries)] =
                   [name |-> normalizeZipPath(call.path), method |-> Deflate,
                    isDir |-> FALSE, removed |-> FALSE, data |-> call.arg]
            /\ entryIndex[normalizeZipPath(call.path)] = Len(entries)
            /\ manifest = Append(before.manifest, item)
            /\ item.mediaType = <<"application/xhtml+xml">>
            /\ ArchivePath(before, item.href) = normalizeZipPath(call.path)
            /\ \E k \in 1..Len(spine) :
                   /\ spine[k] = [idref |-> item.id]
                   /\ Without(spine, k) = before.spine

\* a chapter was added in the middle of the spine, under a directory the archive
\* did not have
AddedInTheMiddle ==
    /\ call.op = "AddChapter"
    /\ call.err = ""
    /\ call.idx = 1
    /\ Len(before.spine) >= 2
    /\ Len(entries) > Len(before.entries) + 1

\* C11: a successful AddChapter with spineIndex i on a spine of n itemrefs puts the
\* new itemref at position i (counted from 0) when 0 <= i < n and at the end
\* otherwise; the itemrefs that were there keep their order, none lost or doubled
SpineIndexHonoured ==
    call.op = "AddChapter" /\ call.err = "" =>
        LET n == Len(before.spine)
            pos == IF 0 <= call.idx /\ call.idx < n THEN call.idx + 1 ELSE n + 1
        IN  /\ Len(spine) = n + 1
            /\ spine[pos].idref = manifest[Len(manifest)].id
            /\ \A k \in 1..n : before.spine[k] = spine[IF k < pos THEN k ELSE k + 1]

\* a chapter was added with an index past the end of a spine that removals had
\* shortened
AppendedPastEnd ==
    /\ call.op = "AddChapter"
    /\ call.err = ""
    /\ call.idx >= Len(before.spine)
    /\ Len(before.spine) >= 1

(***************************************************************************)
(* Manifest items and their entries                                        *)
(***************************************************************************)

\* the positions of the file entries added since Open
CreatedFiles == {i \in (loaded + 1)..Len(entries) : ~entries[i].isDir}

\* the manifest has an item whose href stands for the archive path name
HasItemFor(name) ==
    \E j \in 1..Len(manifest) : ArchivePath(Now, manifest[j].href) = name

\* C12: after any calls, failed ones included, every manifest item with a
\* generated id has an entry that is not removed at package directory/href, every
\* file entry added since Open that is not removed has a manifest item, and a
\* removed one has none
ItemsAndEntriesTogether ==
    /\ \A j \in 1..Len(manifest) :
           (\E k \in 1..Len(issued) : issued[k] = manifest[j].id) =>
               /\ ArchivePath(Now, manifest[j].href) \in DOMAIN entryIndex
               /\ ~EntryAt(Now, ArchivePath(Now, manifest[j].href)).removed
    /\ \A i \in CreatedFiles :
           IF entries[i].removed THEN ~HasItemFor(entries[i].name)
           ELSE HasItemFor(entries[i].name)

(***************************************************************************)
(* Save                                                                    *)
(***************************************************************************)

\* the entries of p that are not removed, in the order of p.entries
LiveEntries(p) ==
    SelectSeqBy(p.entries, {i \in 1..Len(p.entries) : ~p.entries[i].removed})

\* Save has returned nil
Saved == call.op = "Save" /\ call.err = ""

\* C13: no call reorders or deletes an entry (the entries a call finds keep their
\* positions, new ones come after them), and Save writes the entries that are not
\* removed, each once, in that order
SavedInFirstSeenOrder ==
    /\ Len(entries) >= Len(before.entries)
    /\ \A i \in 1..Len(before.entries) : entries[i].name = before.entries[i].name
    /\ Saved =>
           /\ Len(call.out.members) = Len(LiveEntries(Now))
           /\ \A k \in 1..Len(call.out.members) :
                  normalizeZipPath(call.out.members[k].name)
                      = normalizeZipPath(LiveEntries(Now)[k].name)

\* Save wrote an archive from which an entry of the input was removed and to which
\* an entry was added
SavedAfterEdits ==
    /\ Saved
    /\ Len(entries) > loaded
    /\ \E i \in 1..(loaded - 1) : entries[i].removed /\ ~entries[i + 1].removed

\* C14: in the archive Save writes, a directory entry has a trailing "/" and the
\* Store method, and a file entry has the method of its header: a stored member of
\* the input stays stored, a deflated one stays deflated
MethodsKept ==
    Saved =>
        \A k \in 1..Len(call.out.members) :
            IF LiveEntries(Now)[k].isDir
            THEN /\ HasSuffix(call.out.members[k].name, <<"/">>)
                 /\ call.out.members[k].method = Store
            ELSE call.out.members[k].method = LiveEntries(Now)[k].method

\* the names, kinds and tombstones of the entries of p, in order
Shape(p) ==
    [i \in 1..Len(p.entries) |->
        [name |-> p.entries[i].name, isDir |-> p.entries[i].isDir,
         removed |-> p.entries[i].removed]]

\* C15: Save changes neither the entry list, the tombstones, the manifest nor the
\* spine, and a second Save right after a Save that returned nil writes the same
\* output: same members, same order, same contents, same methods
SaveIdempotent ==
    call.op = "Save" =>
        /\ Shape(Now) = Shape(before)
        /\ manifest = before.manifest
        /\ spine = before.spine
        /\ Saved /\ call.arg = <<"ok">> =>
               LET again == Save(Epub, call.path, "ok", WriteFailsAt)
               IN  /\ again.err = ""
                   /\ again.out = call.out
                   /\ Fields(again.p) = Now

\* Save has flushed a descriptor that an added chapter had changed
SavedChangedDescriptor ==
    /\ Saved
    /\ call.arg = <<"ok">>
    /\ entries # before.entries
    /\ Len(manifest) >= 1
    /\ manifest[Len(manifest)].id \in {issued[k] : k \in 1..Len(issued)}

\* C16: Save returns an error when a step of producing the output fails, the
\* closing of the zip writer included: when it returns nil the archive at the
\* output path is complete, its central directory written
SaveReportsFailure ==
    Saved => call.out.exists /\ call.out.finalized

(***************************************************************************)
(* The content editor                                                      *)
(***************************************************************************)

\* the call was given an empty or missing required argument
MissingArgument ==
    \/ call.op = "AddChapter" /\ call.path = <<>>
    \/ call.op = "AddChapterFromFile" /\ (call.path = <<>> \/ call.arg = <<>>)
    \/ call.op = "FindHTMLByText" /\ call.arg = <<>>
    \/ call.op = "ReplaceAllHTML" /\ call.arg[1] = <<>>
    \/ call.op = "ApplyHTML" /\ call.arg = <<"nil">>
    \/ call.op = "Save" /\ call.path = <<>>

\* C17: a public operation given an empty or missing required argument (an empty
\* path, an empty search or old text, a nil callback, an empty output path) fails
\* with a validation error and leaves the model unchanged
MissingArgumentRefused ==
    MissingArgument => call.err = "Validation" /\ Now = before

\* what the callback of the call returns for the entry at norm as the call found it
Called(norm) ==
    CallFn(call.arg[1], EntryAt(before, norm).name, EntryAt(before, norm).data)

\* C18: when the callback fails on an entry, ApplyHTML returns the error and the
\* count 0; the entries visited before it hold what the callback returned, the
\* failing entry and the entries not yet visited hold what they held, and so do the
\* removed and the non-HTML entries, which the callback is never given
ApplyStopsAtFailure ==
    call.op = "ApplyHTML" /\ call.err # "" =>
        /\ call.n = 0
        /\ {call.order[k] : k \in 1..Len(call.order)} = LiveHTML(before)
        /\ \E j \in 1..Len(call.order) :
               /\ Called(call.order[j]).err # ""
               /\ \A k \in 1..(j - 1) :
                      /\ Called(call.order[k]).err = ""
                      /\ EntryAt(Now, call.order[k]).data = Called(call.order[k]).html
               /\ \A k \in j..Len(call.order) :
                      EntryAt(Now, call.order[k]).data = EntryAt(before, call.order[k]).data
        /\ \A i \in 1..Len(entries) :
               before.entries[i].removed \/ ~isHTMLEntry(before.entries[i])
                   => entries[i] = before.entries[i]
        /\ Shape(Now) = Shape(before)
        /\ manifest = before.manifest
        /\ spine = before.spine

\* the callback failed after ApplyHTML had rewritten an entry
FailedAfterRewrite ==
    /\ call.op = "ApplyHTML"
    /\ call.err # ""
    /\ \E i \in 1..Len(entries) : entries[i].data # before.entries[i].data

\* the greatest number of occurrences of old in s no two of which overlap
Occurrences(s, old) ==
    LET at == {i \in 1..(Len(s) - Len(old) + 1) : SubSeq(s, i, i + Len(old) - 1) = old}
        apart == {S \in SUBSET at :
                     \A i, j \in S : i < j => j - i >= Len(old)}
    IN  CHOOSE n \in 0..Len(s) :
            /\ \E S \in apart : Cardinality(S) = n
            /\ \A S \in apart : Cardinality(S) <= n

\* the sum of Occurrences over the entries of p at the paths in S
RECURSIVE TotalOccurrences(_, _, _)
TotalOccurrences(p, S, old) ==
    IF S = {} THEN 0
    ELSE LET k == CHOOSE k \in S : TRUE
         IN  Occurrences(EntryAt(p, k).data, old) + TotalOccurrences(p, S \ {k}, old)

\* C19: ReplaceAllHTML with a non-empty old text returns the number of
\* non-overlapping occurrences of old in the HTML entries that are not removed; in
\* each of them every occurrence is replaced, and the entries without an
\* occurrence, the non-HTML ones and the removed ones are left as they were
ReplaceCountsOccurrences ==
    call.op = "ReplaceAllHTML" /\ call.arg[1] # <<>> =>
        /\ call.err = ""
        /\ call.n = TotalOccurrences(before, LiveHTML(before), call.arg[1])
        /\ Len(entries) = Len(before.entries)
        /\ \A i \in 1..Len(entries) :
               IF ~before.entries[i].removed /\ isHTMLEntry(before.entries[i])
               THEN /\ entries[i] = [before.entries[i] EXCEPT
                                        !.data = ReplaceAll(@, call.arg[1], call.arg[2])]
                    /\ Len(entries[i].data) = Len(before.entries[i].data)
                           - Occurrences(before.entries[i].data, call.arg[1])
                               * (Len(call.arg[1]) - Len(call.arg[2]))
                    /\ Occurrences(before.entries[i].data, call.arg[1]) = 0
                           => entries[i] = before.entries[i]
               ELSE entries[i] = before.entries[i]
        /\ manifest = before.manifest
        /\ spine = before.spine

\* the entries the call found that are HTML-like, not removed, and hold one of the
\* non-empty keywords of the call as a substring, letter case observed
Doomed ==
    {i \in 1..Len(before.entries) :
        /\ ~before.entries[i].removed
        /\ isHTMLEntry(before.entries[i])
        /\ \E k \in 1..Len(call.arg) :
               call.arg[k] # <<>> /\ Contains(before.entries[i].data, call.arg[k])}

\* the manifest items of the call's start whose href names one of the Doomed
DoomedItems ==
    {j \in 1..Len(before.manifest) :
        \E i \in Doomed :
            normalizeZipPath(ArchivePath(before, before.manifest[j].href))
                = normalizeZipPath(before.entries[i].name)}

\* C20: RemoveHTMLContaining removes an entry that was not removed exactly when it
\* is HTML-like and holds a non-empty keyword, letter case observed; the list it
\* returns names exactly the entries it removed; the manifest items of the removed
\* entries and the spine itemrefs with their ids are gone, the others are kept
RemovesExactlyMatching ==
    call.op = "RemoveHTMLContaining" =>
        /\ Len(entries) = Len(before.entries)
        /\ \A i \in 1..Len(entries) :
               /\ entries[i].removed <=> (before.entries[i].removed \/ i \in Doomed)
               /\ [entries[i] EXCEPT !.removed = FALSE]
                      = [before.entries[i] EXCEPT !.removed = FALSE]
        /\ Len(call.names) = Cardinality(Doomed)
        /\ {call.names[k] : k \in 1..Len(call.names)}
               = {before.entries[i].name : i \in Doomed}
        /\ manifest = SelectSeqBy(before.manifest,
                                  (1..Len(before.manifest)) \ DoomedItems)
        /\ spine = SelectSeqBy(before.spine,
                               {m \in 1..Len(before.spine) :
                                   \A j \in DoomedItems :
                                       before.manifest[j].id # before.spine[m].idref})

(***************************************************************************)
(* Importing a chapter with its images                                     *)
(***************************************************************************)

\* AddChapterFromFile has returned nil
Imported == call.op = "AddChapterFromFile" /\ call.err = ""

\* the references of the source HTML of the call, and the text between them
SourceParts == Lex(Disk[call.arg])

\* the local file a reference of the source HTML points to
LocalFile(part) == FullPath(PathDir(call.arg), part.src)

\* the reference is one the extraction recognises as a local image file, and the
\* file can be read
Importable(part) ==
    /\ part.open \in {ImgQ, ImgU, UrlQ, UrlU}
    /\ ~IsExternal(part.src)
    /\ part.open \in {UrlQ, UrlU} => IsImageExt(ToLower(PathExt(LocalFile(part))))
    /\ LocalFile(part) \in DOMAIN Disk

\* the directory of the chapter of the call, empty for the root of the archive
ChapterDirOfCall ==
    IF normalizeZipPath(PathDir(call.path)) = <<".">> THEN <<>>
    ELSE normalizeZipPath(PathDir(call.path))

\* the name of the directory the images are imported to
StaticImages == <<"s", "t", "a", "t", "i", "c", "_", "i", "m", "a", "g", "e", "s">>

\* <package directory>/static_images, or <chapter directory>/static_images
ImportDir ==
    IF before.opfDir # <<>> THEN before.opfDir \o Sl \o StaticImages
    ELSE IF ChapterDirOfCall = <<>> THEN StaticImages
    ELSE ChapterDirOfCall \o Sl \o StaticImages

\* where the image of a reference is stored in the archive
StoredAt(part) == normalizeZipPath(ImportDir \o Sl \o PathBase(LocalFile(part)))

\* the chapter the call stored
StoredChapter == EntryAt(Now, normalizeZipPath(call.path)).data

\* the source HTML with the target of every importable reference replaced by the
\* relative path from the chapter's directory to the stored image
RECURSIVE Relinked(_)
Relinked(parts) ==
    IF parts = <<>> THEN <<>>
    ELSE (IF Head(parts).open = "" THEN Head(parts).src
          ELSE IF Importable(Head(parts))
               THEN <<Head(parts).open>>
                        \o calculateRelativePath(ChapterDirOfCall, StoredAt(Head(parts)))
                        \o <<CloserOf(Head(parts).open)>>
          ELSE <<Head(parts).open>> \o Head(parts).src \o <<CloserOf(Head(parts).open)>>)
             \o Relinked(Tail(parts))

\* C21: after a successful AddChapterFromFile every imported image has an entry
\* at <import directory>/<base name>, and every reference to it that the
\* extraction recognises is replaced in the stored chapter by the relative path
\* from the chapter's directory to that entry
ImportedAndRelinked ==
    Imported =>
        /\ \A k \in 1..Len(SourceParts) :
               Importable(SourceParts[k]) =>
                   /\ StoredAt(SourceParts[k]) \in DOMAIN entryIndex
                   /\ ~EntryAt(Now, StoredAt(SourceParts[k])).removed
        /\ StoredChapter = Relinked(SourceParts)

\* the target of a reference is remote or inline: http://, https://, // or data:
Remote(src) ==
    \E prefix \in { <<"h", "t", "t", "p", ":", "/", "/">>,
                     <<"h", "t", "t", "p", "s", ":", "/", "/">>,
                     <<"/", "/">>, <<"d", "a", "t", "a", ":">> } : HasPrefix(src, prefix)

\* the positions of the remote and inline references of the source HTML
RemoteRefs == {k \in 1..Len(SourceParts) :
                  SourceParts[k].open # "" /\ Remote(SourceParts[k].src)}

\* the positions of the references of the source HTML to local files
LocalRefs == {k \in 1..Len(SourceParts) :
                 SourceParts[k].open # "" /\ ~Remote(SourceParts[k].src)}

\* the names of the files the call added to the store
AddedFiles == {entries[i].name : i \in {j \in (Len(before.entries) + 1)..Len(entries) :
                                           ~entries[j].isDir}}

\* C22: a successful AddChapterFromFile leaves every reference to an http://,
\* https://, // or data: target as it is in the stored chapter, img src and CSS
\* url() alike, and adds no file and no manifest item but the chapter and the
\* images of the references to local files
ExternalLeftAlone ==
    Imported =>
        /\ \A k \in RemoteRefs : Lex(StoredChapter)[k] = SourceParts[k]
        /\ AddedFiles \subseteq {normalizeZipPath(call.path)}
                                  \cup {StoredAt(SourceParts[k]) : k \in LocalRefs}
        /\ \A i \in (Len(before.manifest) + 1)..Len(manifest) :
               ArchivePath(Now, manifest[i].href) \in AddedFiles

\* a chapter was imported whose source refers to a remote image, to inline data
\* and to a local image the store holds, while the store already held an image
\* with the base name of the remote one
ExternalBesideLocal ==
    /\ Imported
    /\ \E k \in RemoteRefs : SourceParts[k].open = ImgQ
    /\ \E k \in RemoteRefs : SourceParts[k].open = UrlQ
    /\ \E k \in LocalRefs : StoredAt(SourceParts[k]) \in DOMAIN entryIndex
    /\ \E k \in RemoteRefs :
           normalizeZipPath(ImportDir \o Sl \o PathBase(SourceParts[k].src))
               \in DOMAIN before.entryIndex

\* the positions of the references of the source HTML to local files that can
\* not be read
UnreadableRefs == {k \in LocalRefs : LocalFile(SourceParts[k]) \notin DOMAIN Disk}

\* C23: a successful AddChapterFromFile whose source refers to an image that can
\* not be read has added the chapter, has left that reference as it is, and has
\* imported and rewritten the quoted references to the images that can be read
UnreadableSkipped ==
    (Imported /\ UnreadableRefs # {}) =>
        /\ normalizeZipPath(call.path) \in AddedFiles
        /\ \A k \in UnreadableRefs : Lex(StoredChapter)[k] = SourceParts[k]
        /\ \A k \in LocalRefs \ UnreadableRefs :
               SourceParts[k].open \in {ImgQ, UrlQ} =>
                   /\ StoredAt(SourceParts[k]) \in DOMAIN entryIndex
                   /\ Lex(StoredChapter)[k].src =
                          calculateRelativePath(ChapterDirOfCall, StoredAt(SourceParts[k]))

(***************************************************************************)
(* Directories                                                             *)
(***************************************************************************)

\* the directories above the normalized path norm, the root left out
Ancestors(norm) ==
    {JoinStr(Take(Split(norm, "/"), n), <<"/">>) : n \in 1..(Len(Split(norm, "/")) - 1)}

\* the positions of the entries of the store whose name normalizes to norm
EntriesAt(norm) == {i \in 1..Len(entries) : normalizeZipPath(entries[i].name) = norm}

\* C24: after a successful AddChapter or AddChapterFromFile every directory above
\* an added file has exactly one entry, a directory entry that is not
\* tombstoned, and it comes before the entry of the file and after the entries
\* of the directories above it
AncestorsInPlace ==
    (call.op \in {"AddChapter", "AddChapterFromFile"} /\ call.err = "") =>
        \A f \in AddedFiles : \A dir \in Ancestors(f) :
            /\ Cardinality(EntriesAt(dir)) = 1
            /\ \A i \in EntriesAt(dir) :
                   /\ entries[i].isDir /\ ~entries[i].removed
                   /\ \A j \in EntriesAt(f) : i < j
                   /\ \A up \in Ancestors(dir) : \A j \in EntriesAt(up) : j < i

(***************************************************************************)
(* The store                                                               *)
(***************************************************************************)

\* C25: the store never holds two entries with the same normalized path, and the
\* path index leads to every entry of the list
OnePerPath ==
    /\ \A i, j \in 1..Len(entries) :
           normalizeZipPath(entries[i].name) = normalizeZipPath(entries[j].name) => i = j
    /\ {entryIndex[norm] : norm \in DOMAIN entryIndex} = 1..Len(entries)

\* C28: the archive a successful Save has written holds the package descriptor,
\* and its content is the serialization of the manifest and the spine as they are
DescriptorSaved ==
    Saved =>
        \E k \in 1..Len(call.out.members) :
            /\ normalizeZipPath(call.out.members[k].name) = opfPath
            /\ call.out.members[k].data
                   = serializeOPF([manifest |-> manifest, spine |-> spine])

\* the positions of the references the call rewrote: the stored chapter holds
\* another target than the source HTML
RewrittenRefs == {k \in LocalRefs : Lex(StoredChapter)[k].src # SourceParts[k].src}

\* the archive path a target in the stored chapter resolves to from the chapter's
\* directory
Resolved(src) ==
    normalizeZipPath(IF ChapterDirOfCall = <<>> THEN src ELSE ChapterDirOfCall \o Sl \o src)

\* C29: after a successful AddChapterFromFile every rewritten reference resolves,
\* from the chapter's directory, to an entry that is not removed and holds the
\* bytes of the source image the reference pointed to
RewrittenResolve ==
    Imported =>
        \A k \in RewrittenRefs :
            /\ Resolved(Lex(StoredChapter)[k].src) \in DOMAIN entryIndex
            /\ ~EntryAt(Now, Resolved(Lex(StoredChapter)[k].src)).removed
            /\ LocalFile(SourceParts[k]) \in DOMAIN Disk
            /\ EntryAt(Now, Resolved(Lex(StoredChapter)[k].src)).data
                   = Disk[LocalFile(SourceParts[k])]

====
